---- MODULE Spec2Model ----
(***************************************************************************)
(* Model of the string extractor of GoReSym (strings_extract.go).          *)
(*                                                                         *)
(* A Go string / []byte is a sequence of byte values 0..255.  Positions    *)
(* are 0-based as in the source; At and Slice translate to TLA+'s 1-based  *)
(* sequences.  A rune is its code point.                                   *)
(***************************************************************************)
EXTENDS Integers, Sequences, FiniteSets, TLC

----------------------------------------------------------------------------
(* Bounds of the model *)

\* longest text (in characters) handed to the classifier in SpecClassify
MaxText == 6
\* longest buffer (in bytes) scanned in SpecScan
MaxBuf == 4
\* largest minLength
MaxMinLen == 2
\* most NUL-separated words in one section buffer of Spec
MaxWords == 2

----------------------------------------------------------------------------
(* Byte sequences *)

At(b, i) == b[i + 1]

Slice(b, lo, hi) == SubSeq(b, lo + 1, hi)

RECURSIVE Flatten(_)
Flatten(ss) == IF ss = <<>> THEN <<>> ELSE Head(ss) \o Flatten(Tail(ss))

\* all sequences over S of length 0..n
SeqsUpTo(S, n) == UNION {[1..k -> S] : k \in 0..n}

----------------------------------------------------------------------------
(* unicode/utf8 and unicode, as the scanner and the classifier use them *)

RuneError == 65533

\* utf8.DecodeRune(b[i:]): the rune at byte position i and its width
DecodeRune(b, i) ==
    LET n    == Len(b) - i
        err1 == [r |-> RuneError, size |-> 1]
    IN  IF n < 1 THEN [r |-> RuneError, size |-> 0]
        ELSE LET p0 == At(b, i) IN
        IF p0 < 128 THEN [r |-> p0, size |-> 1]
        ELSE IF p0 < 194 \/ p0 > 244 THEN err1
        ELSE LET sz == IF p0 < 224 THEN 2 ELSE IF p0 < 240 THEN 3 ELSE 4
                 lo == IF p0 = 224 THEN 160 ELSE IF p0 = 240 THEN 144 ELSE 128
                 hi == IF p0 = 237 THEN 159 ELSE IF p0 = 244 THEN 143 ELSE 191
             IN
        IF n < sz THEN err1
        ELSE LET b1 == At(b, i + 1) IN
        IF b1 < lo \/ b1 > hi THEN err1
        ELSE IF sz = 2 THEN [r |-> (p0 % 32) * 64 + (b1 % 64), size |-> 2]
        ELSE LET b2 == At(b, i + 2) IN
        IF b2 < 128 \/ b2 > 191 THEN err1
        ELSE IF sz = 3
             THEN [r |-> (p0 % 16) * 4096 + (b1 % 64) * 64 + (b2 % 64), size |-> 3]
        ELSE LET b3 == At(b, i + 3) IN
        IF b3 < 128 \/ b3 > 191 THEN err1
        ELSE [r |-> (p0 % 8) * 262144 + (b1 % 64) * 4096 + (b2 % 64) * 64 + (b3 % 64),
              size |-> 4]

\* utf8.EncodeRune, as strings.Map writes a mapped rune
EncodeRune(r) ==
    IF r < 128 THEN <<r>>
    ELSE IF r < 2048 THEN <<192 + (r \div 64), 128 + (r % 64)>>
    ELSE IF r > 1114111 \/ (r >= 55296 /\ r <= 57343) THEN <<239, 191, 189>>
    ELSE IF r < 65536
         THEN <<224 + (r \div 4096), 128 + ((r \div 64) % 64), 128 + (r % 64)>>
    ELSE <<240 + (r \div 262144), 128 + ((r \div 4096) % 64),
           128 + ((r \div 64) % 64), 128 + (r % 64)>>

\* "for _, r := range s" and []rune(s): the runes of s, an invalid byte
\* giving RuneError of width 1
RECURSIVE RunesFrom(_, _)
RunesFrom(s, i) ==
    IF i >= Len(s) THEN <<>>
    ELSE LET d == DecodeRune(s, i) IN <<d.r>> \o RunesFrom(s, i + d.size)

Runes(s) == RunesFrom(s, 0)

\* The unicode predicates below are the Latin-1 tables of package unicode
\* (code points up to U+00FF) and U+FFFD; the inputs of every specification
\* of this module decode to such code points only.

IsControl(r) == r <= 31 \/ (r >= 127 /\ r <= 159)

IsLetter(r) ==
    \/ r >= 65 /\ r <= 90
    \/ r >= 97 /\ r <= 122
    \/ r \in {170, 181, 186}
    \/ r >= 192 /\ r <= 214
    \/ r >= 216 /\ r <= 246
    \/ r >= 248 /\ r <= 255

IsDigit(r) == r >= 48 /\ r <= 57

IsSpace(r) == r \in {9, 10, 11, 12, 13, 32, 133, 160}

ToLowerRune(r) ==
    IF \/ r >= 65 /\ r <= 90
       \/ r >= 192 /\ r <= 214
       \/ r >= 216 /\ r <= 222
    THEN r + 32
    ELSE r

\* strings.ToLower(s)
RECURSIVE ToLowerFrom(_, _)
ToLowerFrom(s, i) ==
    IF i >= Len(s) THEN <<>>
    ELSE LET d == DecodeRune(s, i)
         IN  EncodeRune(ToLowerRune(d.r)) \o ToLowerFrom(s, i + d.size)

ToLower(s) == ToLowerFrom(s, 0)

\* strings.TrimSpace(s): the first byte position that is not white space ...
RECURSIVE TrimLeft(_, _)
TrimLeft(s, i) ==
    IF i >= Len(s) THEN i
    ELSE LET d == DecodeRune(s, i)
         IN  IF IsSpace(d.r) THEN TrimLeft(s, i + d.size) ELSE i

\* ... and the end of the last rune that is not white space, the runes
\* taken from position i on
RECURSIVE TrimRight(_, _, _)
TrimRight(s, i, end) ==
    IF i >= Len(s) THEN end
    ELSE LET d == DecodeRune(s, i)
         IN  TrimRight(s, i + d.size, IF IsSpace(d.r) THEN end ELSE i + d.size)

TrimSpace(s) ==
    LET lo == TrimLeft(s, 0) IN Slice(s, lo, TrimRight(s, lo, lo))

\* strings.HasPrefix(s, h)
HasPrefix(s, h) == Len(s) >= Len(h) /\ SubSeq(s, 1, Len(h)) = h

\* strings.Contains(s, h)
Contains(s, h) ==
    \E k \in 0..(Len(s) - Len(h)) : Slice(s, k, k + Len(h)) = h

----------------------------------------------------------------------------
(* The classifier *)

isPrintableASCII(c) == c >= 32 /\ c <= 126

isPureASCII(s) == \A k \in 1..Len(s) : s[k] < 128

\* . , : ; ! ? ' " ( ) [ ] { } - _ / \ + = * & | < > @ # $ % ^ ~ `
isCommonPunctuation(r) ==
    r \in {46, 44, 58, 59, 33, 63, 39, 34, 40, 41, 91, 93, 123, 125, 45, 95,
           47, 92, 43, 61, 42, 38, 124, 60, 62, 64, 35, 36, 37, 94, 126, 96}

isRepeatedChar(s) ==
    IF Len(s) < 3 THEN FALSE
    ELSE \A k \in 1..(Len(s) - 1) : At(s, k) = At(s, 0)

\* mov jmp call ret lea add sub xor push pop cmp test
asmHints ==
    << <<109, 111, 118>>, <<106, 109, 112>>, <<99, 97, 108, 108>>,
       <<114, 101, 116>>, <<108, 101, 97>>, <<97, 100, 100>>,
       <<115, 117, 98>>, <<120, 111, 114>>, <<112, 117, 115, 104>>,
       <<112, 111, 112>>, <<99, 109, 112>>, <<116, 101, 115, 116>> >>

\* the first return of looksLikeAssemblyCode, on the lower-cased text
mnemonicSignal(lower) ==
    \E n \in 1..Len(asmHints) :
        Contains(lower, asmHints[n] \o <<32>>) \/ HasPrefix(lower, asmHints[n])

isHexLike(r) == (r >= 48 /\ r <= 57) \/ (r >= 97 /\ r <= 102) \/ r = 120

\* the number of hex-like runes of the lower-cased text
hexCount(lower) ==
    LET rs == Runes(lower) IN Cardinality({k \in 1..Len(rs) : isHexLike(rs[k])})

\* the second return of looksLikeAssemblyCode, on the lower-cased text
hexDensitySignal(lower) ==
    Len(lower) > 0 /\ (hexCount(lower) * 100) \div Len(lower) > 80

looksLikeAssemblyCode(s) ==
    LET lower == ToLower(s) IN mnemonicSignal(lower) \/ hexDensitySignal(lower)

isGood(r) == IsLetter(r) \/ IsDigit(r) \/ r = 32 \/ isCommonPunctuation(r)

isLikelyString(s) ==
    LET trimmed == TrimSpace(s)
        rs      == Runes(trimmed)
        good    == Cardinality({k \in 1..Len(rs) : isGood(rs[k])})
    IN  IF Len(trimmed) = 0 THEN FALSE
        ELSE IF isRepeatedChar(trimmed) THEN FALSE
        ELSE IF (good * 100) \div Len(rs) < 70 THEN FALSE
        ELSE IF looksLikeAssemblyCode(trimmed) THEN FALSE
        ELSE TRUE

----------------------------------------------------------------------------
(* The two scans of one buffer *)

\* a run b[lo:hi] of the ASCII scan is closed: lines 100-105 and 111-116
closeRun(buf, minLen, lo, hi, out) ==
    IF hi - lo >= minLen
    THEN LET s == Slice(buf, lo, hi)
         IN  IF isLikelyString(s)
             THEN Append(out, [Value |-> s, Address |-> lo])
             ELSE out
    ELSE out

\* one iteration of "for i, c := range b"; st = [i, start, res]
asciiIter(buf, minLen, st) ==
    LET c == At(buf, st.i)
    IN  IF isPrintableASCII(c)
        THEN [st EXCEPT !.i = st.i + 1,
                        !.start = IF st.start = -1 THEN st.i ELSE st.start]
        ELSE IF st.start # -1
             THEN [i |-> st.i + 1, start |-> -1,
                   res |-> closeRun(buf, minLen, st.start, st.i, st.res)]
             ELSE [st EXCEPT !.i = st.i + 1]

\* asciiTail with the run open at the end of the buffer forgotten
asciiTail_dropOpenRun(buf, minLen, st) == st.res

\* after the loop: a run still open at the end of the buffer
asciiTail(buf, minLen, st) ==
    IF st.start # -1
    THEN closeRun(buf, minLen, st.start, Len(buf), st.res)
    ELSE st.res

RECURSIVE asciiLoop(_, _, _)
asciiLoop(buf, minLen, st) ==
    IF st.i >= Len(buf) THEN st
    ELSE asciiLoop(buf, minLen, asciiIter(buf, minLen, st))

extractASCIIStrings(buf, minLen) ==
    asciiTail(buf, minLen,
              asciiLoop(buf, minLen, [i |-> 0, start |-> -1, res |-> <<>>]))

\* the inner loop "for j < len(b)": where the run from j on ends, and the
\* number of code points it adds to printable
RECURSIVE utf8Run(_, _, _)
utf8Run(buf, j, printable) ==
    IF j >= Len(buf) THEN [j |-> j, printable |-> printable]
    ELSE LET d == DecodeRune(buf, j)
         IN  IF d.r = RuneError /\ d.size = 1
                THEN [j |-> j, printable |-> printable]
             ELSE IF d.r = 10 \/ d.r = 13 \/ d.r = 9
                THEN [j |-> j, printable |-> printable]
             ELSE IF IsControl(d.r)
                THEN [j |-> j, printable |-> printable]
             ELSE utf8Run(buf, j + d.size, printable + 1)

\* utf8Emit with the length of the run taken in bytes
utf8Emit_byteLength(buf, minLen, lo, hi, printable, out) ==
    IF hi - lo >= minLen
    THEN LET s == Slice(buf, lo, hi)
         IN  IF ~isPureASCII(s) /\ isLikelyString(s)
             THEN Append(out, [Value |-> s, Address |-> lo])
             ELSE out
    ELSE out

\* the run b[lo:hi] of printable code points is closed
utf8Emit(buf, minLen, lo, hi, printable, out) ==
    IF printable >= minLen
    THEN LET s == Slice(buf, lo, hi)
         IN  IF ~isPureASCII(s) /\ isLikelyString(s)
             THEN Append(out, [Value |-> s, Address |-> lo])
             ELSE out
    ELSE out

\* utf8Resume with the scan resumed at the delimiter
utf8Resume_atDelimiter(pos, j, size) == IF j = pos THEN pos + size ELSE j

\* where the scan resumes after the run [pos, j)
utf8Resume(pos, j, size) == IF j = pos THEN pos + size ELSE j + 1

\* one iteration of "for i < len(b)"; st = [i, res]
utf8Iter(buf, minLen, st) ==
    LET d == DecodeRune(buf, st.i)
    IN  IF d.r = RuneError /\ d.size = 1
        THEN [st EXCEPT !.i = st.i + 1]
        ELSE LET run == utf8Run(buf, st.i, 0)
             IN  [i   |-> utf8Resume(st.i, run.j, d.size),
                  res |-> utf8Emit(buf, minLen, st.i, run.j, run.printable, st.res)]

RECURSIVE utf8Loop(_, _, _)
utf8Loop(buf, minLen, st) ==
    IF st.i >= Len(buf) THEN st
    ELSE utf8Loop(buf, minLen, utf8Iter(buf, minLen, st))

extractUTF8Strings(buf, minLen) ==
    utf8Loop(buf, minLen, [i |-> 0, res |-> <<>>]).res

extractPrintableStrings(buf, minLen) ==
    extractASCIIStrings(buf, minLen) \o extractUTF8Strings(buf, minLen)

----------------------------------------------------------------------------
(* extractStrings: the sections, deduplication and the sort *)

\* the section labels, in the order extractStrings queries them
Sections == <<".text", ".rodata", ".data.rel.ro">>

\* the bytes of a section label
sectionBytes(name) ==
    CASE name = ".text" -> <<46, 116, 101, 120, 116>>
      [] name = ".rodata" -> <<46, 114, 111, 100, 97, 116, 97>>
      [] name = ".data.rel.ro" ->
            <<46, 100, 97, 116, 97, 46, 114, 101, 108, 46, 114, 111>>

Nil == "nil"

\* the StringInfo entries of one section: Address: start + s.Address.  The
\* base addresses of this model are far below 2^64, where the sum wraps.
rebase(strs, base, sectionName) ==
    [k \in 1..Len(strs) |->
        [Value |-> strs[k].Value, Address |-> base + strs[k].Address,
         Section |-> sectionName]]

\* what one section adds to results, for what its data function returned:
\* got = [err, start, data]
sectionEntries(sectionName, got, minLen) ==
    IF got.err \/ Len(got.data) = 0
    THEN <<>>
    ELSE rebase(extractPrintableStrings(got.data, minLen), got.start, sectionName)

\* the body of pull, and of the two blocks that follow it
pull(sectionName, got, minLen, out) ==
    out \o sectionEntries(sectionName, got, minLen)

\* dedupKey without the section
dedupKey_valueOnly(s) == s.Value

\* key := s.Section + "|" + s.Value
dedupKey(s) == sectionBytes(s.Section) \o <<124>> \o s.Value

RECURSIVE dedupLoop(_, _, _, _)
dedupLoop(in, k, seen, out) ==
    IF k > Len(in) THEN out
    ELSE LET key == dedupKey(in[k])
         IN  IF key \notin seen
             THEN dedupLoop(in, k + 1, seen \cup {key}, Append(out, in[k]))
             ELSE dedupLoop(in, k + 1, seen, out)

Reverse(q) == [k \in 1..Len(q) |-> q[Len(q) + 1 - k]]

\* deduplicateStrings with nothing dropped
deduplicateStrings_keepAll(in) == in

\* deduplicateStrings with the last occurrence kept
deduplicateStrings_keepLast(in) == Reverse(dedupLoop(Reverse(in), 1, {}, <<>>))

deduplicateStrings(in) == dedupLoop(in, 1, {}, <<>>)

\* sort.Slice(results, Address <): package sort sorts a slice of at most 12
\* elements by insertion, each element moved down while less than the one
\* before it; the slices of this model are that short.
RECURSIVE insertDown(_, _)
insertDown(a, j) ==
    IF j > 1 /\ a[j].Address < a[j - 1].Address
    THEN insertDown([a EXCEPT ![j] = a[j - 1], ![j - 1] = a[j]], j - 1)
    ELSE a

RECURSIVE insertionSort(_, _)
insertionSort(a, k) ==
    IF k > Len(a) THEN a ELSE insertionSort(insertDown(a, k), k + 1)

\* sortSlice with the slice left as it is
sortSlice_unsorted(a) == a

sortSlice(a) == insertionSort(a, 2)

\* finalize with the count taken before deduplication
finalize_countBefore(out) ==
    LET sorted == sortSlice(deduplicateStrings(out))
    IN  [Strings |-> sorted, Count |-> Len(out), err |-> Nil]

\* from "Deduplicate and sort" to the return
finalize(out) ==
    LET sorted == sortSlice(deduplicateStrings(out))
    IN  [Strings |-> sorted, Count |-> Len(sorted), err |-> Nil]

----------------------------------------------------------------------------
(* State *)

VARIABLES
    pc,         \* the position of the operation under way
    text,       \* the argument of isLikelyString / looksLikeAssemblyCode
    verdict,    \* what the classifier returned for text
    b,          \* the buffer extractPrintableStrings scans
    minLength,  \* the minLength argument
    i,          \* the scan position of the loop under way
    start,      \* start of extractASCIIStrings
    res,        \* res of the scan under way
    ascii,      \* ascii of extractPrintableStrings
    acc,        \* acc of extractPrintableStrings, once returned
    file,       \* what file.Text, file.RData and file.RelRData returned
    results,    \* results of extractStrings
    ret         \* what extractStrings returned

classifierVars == <<text, verdict>>
scanVars == <<b, i, start, res, ascii, acc>>
extractVars == <<file, results, ret>>

vars == <<pc, minLength, classifierVars, scanVars, extractVars>>

None == "none"

----------------------------------------------------------------------------
(* SpecClassify: the classifier applied to a text *)

\* a D z space and the two-byte E-acute
TextChars == {<<97>>, <<68>>, <<122>>, <<32>>, <<195, 137>>}

Texts == {Flatten(cs) : cs \in SeqsUpTo(TextChars, MaxText)}

scanIdle ==
    /\ b = <<>> /\ i = 0 /\ start = -1
    /\ res = <<>> /\ ascii = <<>> /\ acc = <<>>

extractIdle == file = None /\ results = <<>> /\ ret = None

InitClassify ==
    /\ pc = "text"
    /\ text \in Texts
    /\ verdict = None
    /\ minLength = 0
    /\ scanIdle
    /\ extractIdle

\* isLikelyString(text)
Classify ==
    /\ pc = "text"
    /\ verdict' = [likely |-> isLikelyString(text)]
    /\ pc' = "classified"
    /\ UNCHANGED <<text, minLength, scanVars, extractVars>>

\* looksLikeAssemblyCode(text), with the signal that decided
Detect ==
    /\ pc = "text"
    /\ verdict' = [asm      |-> looksLikeAssemblyCode(text),
                   mnemonic |-> mnemonicSignal(ToLower(text)),
                   hex      |-> hexDensitySignal(ToLower(text))]
    /\ pc' = "detected"
    /\ UNCHANGED <<text, minLength, scanVars, extractVars>>

NextClassify == Classify \/ Detect

SpecClassify == InitClassify /\ [][NextClassify]_vars

----------------------------------------------------------------------------
(* SpecScan: extractPrintableStrings, one loop iteration per step *)

\* NUL, a, z, and the bytes of U+0085 (C2 85, a control) and of U+00C5
\* (C3 85, a letter)
ScanBytes == {0, 97, 122, 194, 195, 133}

\* "\x00\x00Hello, world!\x00\x00mov eax, 1\x00\x00"
HelloWorld ==
    <<0, 0, 72, 101, 108, 108, 111, 44, 32, 119, 111, 114, 108, 100, 33,
      0, 0, 109, 111, 118, 32, 101, 97, 120, 44, 32, 49, 0, 0>>

classifierIdle == text = <<>> /\ verdict = None

InitScan ==
    /\ pc = "idle"
    /\ b = <<>> /\ minLength = 0
    /\ i = 0 /\ start = -1 /\ res = <<>>
    /\ ascii = <<>> /\ acc = <<>>
    /\ classifierIdle
    /\ extractIdle

\* extractPrintableStrings(b, minLength) is called; extractASCIIStrings starts
CallScan ==
    /\ pc = "idle"
    /\ \/ b' \in SeqsUpTo(ScanBytes, MaxBuf) /\ minLength' \in 0..MaxMinLen
       \/ b' = HelloWorld /\ minLength' = 5
    /\ pc' = "ascii"
    /\ i' = 0 /\ start' = -1 /\ res' = <<>>
    /\ UNCHANGED <<classifierVars, extractVars, ascii, acc>>

ASCIIIter ==
    /\ pc = "ascii"
    /\ i < Len(b)
    /\ LET st == asciiIter(b, minLength, [i |-> i, start |-> start, res |-> res])
       IN  i' = st.i /\ start' = st.start /\ res' = st.res
    /\ UNCHANGED <<pc, minLength, classifierVars, extractVars, b, ascii, acc>>

\* extractASCIIStrings returns; extractUTF8Strings starts
ASCIIReturn ==
    /\ pc = "ascii"
    /\ i >= Len(b)
    /\ ascii' = asciiTail(b, minLength, [i |-> i, start |-> start, res |-> res])
    /\ pc' = "utf8"
    /\ i' = 0 /\ start' = -1 /\ res' = <<>>
    /\ UNCHANGED <<minLength, classifierVars, extractVars, b, acc>>

UTF8Iter ==
    /\ pc = "utf8"
    /\ i < Len(b)
    /\ LET st == utf8Iter(b, minLength, [i |-> i, res |-> res])
       IN  i' = st.i /\ res' = st.res
    /\ UNCHANGED <<pc, minLength, classifierVars, extractVars, b, start, ascii, acc>>

\* extractUTF8Strings returns, and extractPrintableStrings with it
UTF8Return ==
    /\ pc = "utf8"
    /\ i >= Len(b)
    /\ acc' = ascii \o res
    /\ pc' = "done"
    /\ UNCHANGED <<minLength, classifierVars, extractVars, b, i, start, res, ascii>>

NextScan == CallScan \/ ASCIIIter \/ ASCIIReturn \/ UTF8Iter \/ UTF8Return

SpecScan == InitScan /\ [][NextScan]_vars

----------------------------------------------------------------------------
(* Spec: extractStrings, one section per step *)

\* the words a section buffer is made of: zz, and the two bytes of U+00C5
SectionWords == {<<122, 122>>, <<195, 133>>}

\* words, each followed by a NUL but the last
RECURSIVE joinWords(_)
joinWords(ws) ==
    IF ws = <<>> THEN <<>>
    ELSE IF Len(ws) = 1 THEN ws[1]
    ELSE ws[1] \o <<0>> \o joinWords(Tail(ws))

SectionBufs == {joinWords(ws) : ws \in SeqsUpTo(SectionWords, MaxWords)}

\* the base addresses of the sections: the second word of a buffer at base 0
\* and the first word of a buffer at base 3 have the same address
SectionBases == {0, 3}

\* the minLength arguments: both words pass the first, only zz the second
MinLengths == {1, 2}

\* what a data function (file.Text, file.RData, file.RelRData) can return: an
\* error, or a base address and a buffer, which may be empty
SectionReturns ==
    {[err |-> TRUE, start |-> 0, data |-> <<>>]} \cup
    {[err |-> FALSE, start |-> base, data |-> d] :
        base \in SectionBases, d \in SectionBufs}

notQueried == [err |-> TRUE, start |-> 0, data |-> <<>>]

Init ==
    /\ pc = "text"
    /\ minLength \in MinLengths
    /\ file = [name \in {Sections[k] : k \in 1..Len(Sections)} |-> notQueried]
    /\ results = <<>>
    /\ ret = None
    /\ classifierIdle
    /\ scanIdle

\* pull(".text", file.Text)
PullText ==
    /\ pc = "text"
    /\ \E got \in SectionReturns :
          /\ file' = [file EXCEPT ![".text"] = got]
          /\ results' = pull(".text", got, minLength, results)
    /\ pc' = "rodata"
    /\ UNCHANGED <<minLength, ret, classifierVars, scanVars>>

\* if start, data, err := file.RData(); ...
PullRData ==
    /\ pc = "rodata"
    /\ \E got \in SectionReturns :
          /\ file' = [file EXCEPT ![".rodata"] = got]
          /\ results' = pull(".rodata", got, minLength, results)
    /\ pc' = "relro"
    /\ UNCHANGED <<minLength, ret, classifierVars, scanVars>>

\* if start, data, err := file.RelRData(); ...
PullRelRData ==
    /\ pc = "relro"
    /\ \E got \in SectionReturns :
          /\ file' = [file EXCEPT ![".data.rel.ro"] = got]
          /\ results' = pull(".data.rel.ro", got, minLength, results)
    /\ pc' = "finalize"
    /\ UNCHANGED <<minLength, ret, classifierVars, scanVars>>

\* deduplicate, sort and return
Finalize ==
    /\ pc = "finalize"
    /\ ret' = finalize(results)
    /\ pc' = "returned"
    /\ UNCHANGED <<minLength, file, results, classifierVars, scanVars>>

Next == PullText \/ PullRData \/ PullRelRData \/ Finalize

Spec == Init /\ [][Next]_vars

----------------------------------------------------------------------------
(* Properties of the classifier, under SpecClassify *)

\* t is one character repeated at least three times
singleRepeatedCharacter(t) ==
    LET rs == Runes(t)
    IN  Len(rs) >= 3 /\ \A k \in 1..Len(rs) : rs[k] = rs[1]

\* C6: isLikelyString rejects every text whose trimmed form is one character
\* repeated three times or more, whatever the character and the length.
C6_RepeatedCharRejected ==
    (pc = "classified" /\ singleRepeatedCharacter(TrimSpace(text)))
        => verdict.likely = FALSE

\* C8: the hex-density signal flags a text exactly when its hex-like
\* characters ([0-9a-f] and x, after lower-casing) are more than 80% of its
\* characters.
C8_HexDensityByCharacters ==
    pc = "detected" =>
        LET lower == ToLower(text)
        IN  verdict.hex <=> (hexCount(lower) * 100 > 80 * Len(Runes(lower)))

----------------------------------------------------------------------------
(* Properties of the scans, under SpecScan *)

\* [lo, hi) is a maximal run of bytes in [0x20, 0x7E]
maximalRun(buf, lo, hi) ==
    /\ lo < hi
    /\ \A k \in lo..(hi - 1) : At(buf, k) >= 32 /\ At(buf, k) <= 126
    /\ lo = 0 \/ At(buf, lo - 1) < 32 \/ At(buf, lo - 1) > 126
    /\ hi = Len(buf) \/ At(buf, hi) < 32 \/ At(buf, hi) > 126

\* the maximal runs the ASCII scan is to report, as [Value, Address]
expectedASCII(buf, minLen) ==
    {[Value |-> Slice(buf, lo, hi), Address |-> lo] :
        <<lo, hi>> \in {r \in (0..Len(buf)) \X (0..Len(buf)) :
                            /\ maximalRun(buf, r[1], r[2])
                            /\ r[2] - r[1] >= minLen
                            /\ isLikelyString(Slice(buf, r[1], r[2]))}}

\* C7: the ASCII scan reports exactly the maximal runs of printable bytes of
\* length >= minLength that the classifier accepts, each once, at the index
\* of its first byte, in ascending order; a run open at the end of the buffer
\* counts like any other.
C7_ASCIIMaximalRuns ==
    pc \in {"utf8", "done"} =>
        /\ {ascii[k] : k \in 1..Len(ascii)} = expectedASCII(b, minLength)
        /\ \A k \in 1..(Len(ascii) - 1) : ascii[k].Address < ascii[k + 1].Address

\* the Hello, world! scenario: one string, at offset 2, the mov run dropped
C7_Witness ==
    /\ pc = "done"
    /\ b = HelloWorld
    /\ ascii = <<[Value |-> SubSeq(HelloWorld, 3, 15), Address |-> 2]>>

\* a run reaching the end of the buffer is reported
C7_WitnessOpenRun ==
    /\ pc = "done"
    /\ Len(ascii) = 2
    /\ ascii[2].Address + Len(ascii[2].Value) = Len(b)

\* where the run of code points starting at j ends
RECURSIVE runEnd(_, _)
runEnd(buf, j) ==
    IF j >= Len(buf) THEN j
    ELSE LET d == DecodeRune(buf, j)
         IN  IF (d.r = RuneError /\ d.size = 1) \/ IsControl(d.r)
             THEN j
             ELSE runEnd(buf, j + d.size)

\* C10: every iteration of the outer loop of the UTF-8 scan moves the scan
\* position forward: by one byte on a decode error, by the size of the code
\* point when the run is empty, to one byte past the end of the run otherwise
\* (so beyond the delimiter).  The position never exceeds len(b) + 1, so that
\* len(b) + 1 - i is a natural number every iteration decreases and the loop
\* ends; it ends with the position at or past the end of the buffer.
C10_UTF8ScanTerminates ==
    /\ [][(pc = "utf8" /\ pc' = "utf8") =>
            LET d == DecodeRune(b, i)
                j == runEnd(b, i)
            IN  /\ i' > i
                /\ i' <= Len(b) + 1
                /\ i' = IF d.r = RuneError /\ d.size = 1 THEN i + 1
                        ELSE IF j = i THEN i + d.size
                        ELSE j + 1
                /\ (j > i) => i' > j]_vars
    /\ [](pc = "done" => i >= Len(b))

\* a run closed by a delimiter inside the buffer, the scan resumed after it
C10_Witness ==
    /\ pc = "utf8"
    /\ i >= 2 /\ i < Len(b)
    /\ runEnd(b, 0) = i - 1
    /\ IsControl(At(b, i - 1))

----------------------------------------------------------------------------
(* Properties of extractStrings, under Spec *)

SectionNames == {Sections[k] : k \in 1..Len(Sections)}

elems(q) == {q[k] : k \in 1..Len(q)}

\* the entries of q whose section is name, in the order of q
RECURSIVE ofSection(_, _)
ofSection(q, name) ==
    IF q = <<>> THEN <<>>
    ELSE IF Head(q).Section = name
         THEN <<Head(q)>> \o ofSection(Tail(q), name)
         ELSE ofSection(Tail(q), name)

skipped(name) == file[name].err \/ file[name].data = <<>>

\* C1: no two entries of the report have the same (section, value).
C1_DedupInvariant ==
    pc = "returned" =>
        \A k, l \in 1..Len(ret.Strings) :
            (/\ ret.Strings[k].Section = ret.Strings[l].Section
             /\ ret.Strings[k].Value = ret.Strings[l].Value) => k = l

\* a value found twice in one section and once more in another
C1_Witness ==
    /\ pc = "returned"
    /\ \E k, l, m \in 1..Len(results) :
          /\ k < l
          /\ results[k].Section = results[l].Section
          /\ results[k].Value = results[l].Value
          /\ results[m].Section # results[k].Section
          /\ results[m].Value = results[k].Value
    /\ Len(ret.Strings) < Len(results)

\* C2: the report is sorted by ascending address, whatever sections the
\* entries come from.
C2_SortInvariant ==
    pc = "returned" =>
        \A k \in 1..(Len(ret.Strings) - 1) :
            ret.Strings[k].Address <= ret.Strings[k + 1].Address

\* entries of a later section lie below entries of an earlier one, so that
\* the sort had entries to move
C2_Witness ==
    /\ pc = "returned"
    /\ Len(ret.Strings) >= 3
    /\ \E k \in 1..(Len(results) - 1) : results[k].Address > results[k + 1].Address
    /\ ret.Strings[1].Section # ".text"

\* C4: no value of the report has fewer than minLength code points, from the
\* ASCII scan or from the UTF-8 scan.
C4_MinimumLength ==
    pc = "returned" =>
        \A k \in 1..Len(ret.Strings) :
            Len(Runes(ret.Strings[k].Value)) >= minLength

\* an ASCII value of exactly minLength code points is reported, and a
\* multi-byte run of minLength bytes but fewer code points is not
C4_Witness ==
    /\ pc = "returned"
    /\ minLength = 2
    /\ \E k \in 1..Len(ret.Strings) : Len(Runes(ret.Strings[k].Value)) = minLength
    /\ \E name \in SectionNames : Contains(file[name].data, <<195, 133>>)

\* the orders in which the three sections can be queried
Orders ==
    {o \in [1..Len(Sections) -> SectionNames] :
        \A k, l \in 1..Len(Sections) : o[k] = o[l] => k = l}

\* what the section adds to results
found(name) == sectionEntries(name, file[name], minLength)

\* what each section adds to results
foundBySection ==
    (".text" :> found(".text")) @@ (".rodata" :> found(".rodata"))
        @@ (".data.rel.ro" :> found(".data.rel.ro"))

\* what each section added to results
addedBySection ==
    (".text" :> ofSection(results, ".text"))
        @@ (".rodata" :> ofSection(results, ".rodata"))
        @@ (".data.rel.ro" :> ofSection(results, ".data.rel.ro"))

\* the report when the sections are queried in order o, given what each
\* section adds to results
reportIn(o, entries) == finalize(entries[o[1]] \o entries[o[2]] \o entries[o[3]])

distinctAddresses(q) ==
    \A k, l \in 1..Len(q) : q[k].Address = q[l].Address => k = l

C5_NeverFails ==
    pc = "returned" =>
        /\ ret.err = Nil
        /\ ret.Count = Len(ret.Strings)
        /\ LET entries == foundBySection
           IN  \A name \in SectionNames :
                  /\ skipped(name) => ofSection(ret.Strings, name) = <<>>
                  /\ ofSection(ret.Strings, name) = finalize(entries[name]).Strings
        /\ results = <<>> => (ret.Strings = <<>> /\ ret.Count = 0)

\* one section unavailable, one empty, the third with a duplicated string
C5_Witness ==
    /\ pc = "returned"
    /\ file[".text"].err
    /\ ~file[".rodata"].err /\ file[".rodata"].data = <<>>
    /\ Len(results) > Len(ret.Strings)
    /\ ret.Count >= 1

\* the least element of a non-empty set of numbers
Min(S) == CHOOSE x \in S : \A y \in S : x <= y

\* the addresses at which the scans of section name accepted value v
acceptedAt(name, v) ==
    {x.Address : x \in {y \in elems(results) : y.Section = name /\ y.Value = v}}

\* C9: deduplication keeps, for each (section, value), the first occurrence
\* in input order, and the address reported is the lowest address at which
\* the value was accepted in that section (base + offset not wrapping, as
\* with every base address of this model).
C9_FirstOccurrenceLowestAddress ==
    pc = "returned" =>
        /\ elems(ret.Strings) \subseteq elems(results)
        /\ \A e \in elems(ret.Strings) :
              /\ \E k \in 1..Len(results) :
                    /\ results[k] = e
                    /\ \A l \in 1..(k - 1) :
                          ~(/\ results[l].Section = e.Section
                            /\ results[l].Value = e.Value)
              /\ e.Address = Min(acceptedAt(e.Section, e.Value))

\* a value accepted at two addresses of one section
C9_Witness ==
    /\ pc = "returned"
    /\ \E e \in elems(ret.Strings) :
          Cardinality(acceptedAt(e.Section, e.Value)) >= 2

====
